---------------------------- MODULE Spec2Model ----------------------------
(***************************************************************************)
(* EV GIS Prospector (src/index.js): the App component's state, the        *)
(* handleSubmit / callGeminiWithRetry handlers and the RealMap effect,     *)
(* as a state machine.  One action is one task of the browser's event      *)
(* loop: an event handler, a settled fetch, a fired timer, a loaded        *)
(* script, or a promise callback (a microtask, which runs before any       *)
(* other task).                                                            *)
(***************************************************************************)
EXTENDS Integers, Sequences, FiniteSets, TLC

\* ------------------------------------------------------------------ bounds
\* Longest location text typed into the form.
MaxLocLen == 1
\* Most sites in one AI response.
MaxSites == 2
\* Most <script> elements the model lets the page append.
MaxScripts == 2
\* Most handleSubmit invocations that can be suspended at the same time.
MaxCalls == 2

\* --------------------------------------------------------------- constants
\* for (let i = 0; i <= 2; i++)
LastAttemptIndex == 2

\* const delays = [500, 1000];
delays == <<500, 1000>>

\* JavaScript null / undefined.
NULL == [null |-> TRUE]

\* A JavaScript string value (a record, so that it compares with NULL).
Str(s) == [str |-> s]

ValidationMessage == Str("Please enter a target location (City, State, or Region).")
GenericMessage == Str("Failed to connect to AI. Please try again.")

\* ------------------------------------------------------------- form values
\* Characters of the location field; String.prototype.trim strips WhiteSpace.
WhiteSpace == {" ", "\t"}
LocChars == {" ", "M"}

RECURSIVE SeqsUpTo(_, _)
SeqsUpTo(S, n) ==
    IF n = 0 THEN {<<>>}
    ELSE LET shorter == SeqsUpTo(S, n - 1)
         IN  shorter \cup {Append(s, c) : s \in shorter, c \in S}

Locations == SeqsUpTo(LocChars, MaxLocLen)

RECURSIVE TrimStart(_)
TrimStart(s) ==
    IF s # <<>> /\ Head(s) \in WhiteSpace THEN TrimStart(Tail(s)) ELSE s

RECURSIVE TrimEnd(_)
TrimEnd(s) ==
    IF s # <<>> /\ s[Len(s)] \in WhiteSpace
    THEN TrimEnd(SubSeq(s, 1, Len(s) - 1))
    ELSE s

\* formData.location.trim()
Trim(s) == TrimEnd(TrimStart(s))

\* A validation that does not trim.
LocationMissing_NoTrim(fd) == fd.location = <<>>

\* !formData.location.trim() : the empty string is the only falsy string.
LocationMissing(fd) == Trim(fd.location) = <<>>

\* --------------------------------------------------------- AI responses
\* A site of the result with k sites; results with different k share no site.
Site(k, n) == [id |-> n, lat |-> k, lng |-> n]

\* The GeospatialResult with k sites.
Result(k) == [cityCenter |-> [lat |-> k, lng |-> 0],
              sites |-> [n \in 1..k |-> Site(k, n)]]

Results == {Result(k) : k \in 0..MaxSites}

\* The text of the first candidate part: JSON text of a result, the JSON
\* text "null", or text that is no JSON.
Texts == {[json |-> TRUE, value |-> v] : v \in Results \cup {NULL}}
             \cup {[json |-> FALSE]}

\* What an attempt's fetch settles with: a rejected fetch, a non-2xx
\* response, a 2xx response whose body is no JSON, a 2xx response without
\* candidates, a 2xx response with a candidate text.
NetworkFailure == [net |-> FALSE]
Responses ==
    {NetworkFailure}
        \cup {[net |-> TRUE, ok |-> FALSE, status |-> 500]}
        \cup {[net |-> TRUE, ok |-> TRUE, body |-> [valid |-> FALSE]]}
        \cup {[net |-> TRUE, ok |-> TRUE,
               body |-> [valid |-> TRUE, candidates |-> <<>>]]}
        \cup {[net |-> TRUE, ok |-> TRUE,
               body |-> [valid |-> TRUE, candidates |-> <<t>>]] : t \in Texts}

\* JSON.parse(jsonString): throws on undefined and on text that is no JSON.
JSONParse(text) ==
    IF text = NULL \/ ~text.json
    THEN [threw |-> TRUE, error |-> [message |-> Str("SyntaxError")]]
    ELSE [threw |-> FALSE, value |-> text.value]

\* data.candidates?.[0]?.content?.parts?.[0]?.text
CandidateText(data) ==
    IF data.candidates = <<>> THEN NULL ELSE data.candidates[1]

\* The body of the try block of one attempt, given what fetch settled with.
Attempt(resp) ==
    IF ~resp.net
    THEN [threw |-> TRUE, error |-> [message |-> Str("Failed to fetch")]]
    ELSE IF ~resp.ok
    THEN [threw |-> TRUE,
          error |-> [message |-> [str |-> "API request failed with status",
                                  status |-> resp.status]]]
    ELSE IF ~resp.body.valid
    THEN [threw |-> TRUE, error |-> [message |-> Str("SyntaxError")]]
    ELSE JSONParse(CandidateText(resp.body))

\* ------------------------------------------------------------------- state
VARIABLES
    mounted,      \* App and RealMap have rendered and their effects started
    formData,     \* useState: the form fields
    loading,      \* useState
    gisData,      \* useState: the current GeospatialResult or NULL
    error,        \* useState: message or NULL
    hoveredSite,  \* useState: a Site or NULL
    calls,        \* the handleSubmit invocations: locals of callGeminiWithRetry
    windowL,      \* window.L is defined
    links,        \* number of <link> elements appended to document.head
    scripts,      \* the <script> elements appended: "loading" / "loaded"
    callbacks,    \* pending .then callbacks of loadLeaflet(), oldest first
    mapInstance,  \* mapInstance.current: NULL or the map's view
    mapLayers,    \* the markers on the map, in the order added
    markersRef,   \* markersRef.current
    lastAction    \* history: the task that ran last, and the call, script
                  \* or marker it was for (mapCallback: the number of
                  \* markers on the map before it ran)

\* ------------------------------------------------------------ the prompt
\* Text is a sequence of characters.  The prompt of handleSubmit is checked
\* in a specification of its own, SpecPrompt, over the form's five fields;
\* under Spec the two variables below keep their initial values.
\* <select name="demographics"> option values.
DemographicsOptions ==
    {<<"u", "r", "b", "a", "n", "-", "d", "e", "n", "s", "e">>,
     <<"s", "u", "b", "u", "r", "b", "a", "n", "-", "r", "e", "s", "i",
       "d", "e", "n", "t", "i", "a", "l">>,
     <<"c", "o", "m", "m", "e", "r", "c", "i", "a", "l", "-", "d", "i",
       "s", "t", "r", "i", "c", "t">>,
     <<"r", "u", "r", "a", "l", "-", "c", "o", "r", "r", "i", "d", "o",
       "r">>}

\* <select name="traffic"> option values.
TrafficOptions ==
    {<<"h", "i", "g", "h", "w", "a", "y", "-", "a", "d", "j", "a", "c",
       "e", "n", "t">>,
     <<"l", "o", "c", "a", "l", "-", "c", "o", "m", "m", "u", "t", "e",
       "r">>,
     <<"d", "e", "s", "t", "i", "n", "a", "t", "i", "o", "n", "-", "t",
       "r", "a", "f", "f", "i", "c">>,
     <<"r", "i", "d", "e", "-", "s", "h", "a", "r", "e", "-", "h", "u",
       "b">>}

\* <select name="amenities"> option values.
AmenitiesOptions ==
    {<<"r", "e", "t", "a", "i", "l">>,
     <<"d", "i", "n", "i", "n", "g">>,
     <<"w", "o", "r", "k", "p", "l", "a", "c", "e", "s">>,
     <<"p", "a", "r", "k", "s", "-", "r", "e", "c", "r", "e", "a", "t",
       "i", "o", "n">>,
     <<"n", "o", "n", "e", "-", "i", "s", "o", "l", "a", "t", "e", "d">>}

\* Location texts typed before the prompt is built.
PromptLocations ==
    {<<>>,
     <<"M">>,
     <<"M", "i", "a", "m", "i", ",", " ", "F", "L">>}

\* The template literal of the prompt, character by character, cut at its
\* five ${...} places.
PromptHead ==
    <<"\n", " ", " ", " ", " ", " ", " ", "D", "e", "t", "e", "r", "m",
      "i", "n", "e", " ", "t", "h", "e", " ", "c", "e", "n", "t", "r", "a",
      "l", " ", "c", "o", "o", "r", "d", "i", "n", "a", "t", "e", "s", " ",
      "(", "l", "a", "t", "/", "l", "n", "g", ")", " ", "f", "o", "r", ":",
      " ">>

PromptBeforeDemographics ==
    <<".", "\n", " ", " ", " ", " ", " ", " ", "T", "h", "e", "n", ",",
      " ", "r", "e", "c", "o", "m", "m", "e", "n", "d", " ", "t", "h", "e",
      " ", "t", "o", "p", " ", "3", " ", "o", "p", "t", "i", "m", "a", "l",
      " ", "h", "y", "p", "o", "t", "h", "e", "t", "i", "c", "a", "l", " ",
      "s", "i", "t", "e", "s", " ", "t", "o", " ", "b", "u", "i", "l", "d",
      " ", "N", "E", "W", " ", "E", "V", " ", "c", "h", "a", "r", "g", "i",
      "n", "g", " ", "i", "n", "f", "r", "a", "s", "t", "r", "u", "c", "t",
      "u", "r", "e", " ", "i", "n", " ", "o", "r", " ", "a", "r", "o", "u",
      "n", "d", " ", "t", "h", "a", "t", " ", "e", "x", "a", "c", "t", " ",
      "l", "o", "c", "a", "t", "i", "o", "n", ".", "\n", " ", " ", " ",
      " ", " ", " ", "\n", " ", " ", " ", " ", " ", " ", "C", "r", "i",
      "t", "e", "r", "i", "a", " ", "c", "o", "n", "s", "t", "r", "a", "i",
      "n", "t", "s", ":", "\n", " ", " ", " ", " ", " ", " ", "-", " ",
      "D", "e", "m", "o", "g", "r", "a", "p", "h", "i", "c", "s", " ", "/",
      " ", "A", "r", "e", "a", " ", "T", "y", "p", "e", ":", " ">>

PromptBeforeTraffic ==
    <<"\n", " ", " ", " ", " ", " ", " ", "-", " ", "T", "r", "a", "f",
      "f", "i", "c", " ", "P", "r", "o", "f", "i", "l", "e", ":", " ">>

PromptBeforeAmenities ==
    <<"\n", " ", " ", " ", " ", " ", " ", "-", " ", "N", "e", "a", "r",
      "b", "y", " ", "A", "m", "e", "n", "i", "t", "i", "e", "s", ":", " ">>

PromptBeforeBudget ==
    <<"\n", " ", " ", " ", " ", " ", " ", "-", " ", "E", "x", "p", "e",
      "c", "t", "e", "d", " ", "S", "c", "a", "l", "e", "/", "B", "u", "d",
      "g", "e", "t", ":", " ">>

PromptTail ==
    <<"\n", " ", " ", " ", " ", " ", " ", "\n", " ", " ", " ", " ", " ",
      " ", "C", "R", "I", "T", "I", "C", "A", "L", ":", " ", "E", "n", "s",
      "u", "r", "e", " ", "t", "h", "e", " ", "c", "o", "o", "r", "d", "i",
      "n", "a", "t", "e", "s", " ", "(", "l", "a", "t", "/", "l", "n", "g",
      ")", " ", "f", "o", "r", " ", "t", "h", "e", " ", "3", " ", "s", "i",
      "t", "e", "s", " ", "a", "r", "e", " ", "r", "e", "a", "l", "i", "s",
      "t", "i", "c", " ", "a", "n", "d", " ", "a", "c", "t", "u", "a", "l",
      "l", "y", " ", "l", "o", "c", "a", "t", "e", "d", " ", "n", "e", "a",
      "r", " ", "t", "h", "e", " ", "r", "e", "q", "u", "e", "s", "t", "e",
      "d", " ", "c", "i", "t", "y", " ", "c", "e", "n", "t", "e", "r", " ",
      "(", "e", ".", "g", ".", " ", "w", "i", "t", "h", "i", "n", " ", "a",
      " ", "0", ".", "0", "5", " ", "t", "o", " ", "0", ".", "1", " ", "d",
      "e", "g", "r", "e", "e", " ", "r", "a", "d", "i", "u", "s", ")", ",",
      " ", "a", "c", "c", "u", "r", "a", "t", "e", "l", "y", " ", "r", "e",
      "f", "l", "e", "c", "t", "i", "n", "g", " ", "t", "h", "e", " ", "d",
      "e", "m", "o", "g", "r", "a", "p", "h", "i", "c", "s", " ", "(", "e",
      ".", "g", ".", ",", " ", "n", "e", "a", "r", " ", "a", " ", "h", "i",
      "g", "h", "w", "a", "y", " ", "i", "f", " ", "r", "e", "q", "u", "e",
      "s", "t", "e", "d", ")", ".", "\n", " ", " ", " ", " ">>

\* useState({location: '', demographics: 'urban-dense', ...}); the form has
\* no control for budget, which stays 'medium'.
DefaultParams ==
    [location |-> <<>>,
     demographics |-> <<"u", "r", "b", "a", "n", "-", "d", "e", "n", "s", "e">>,
     traffic |-> <<"h", "i", "g", "h", "w", "a", "y", "-",
                   "a", "d", "j", "a", "c", "e", "n", "t">>,
     amenities |-> <<"r", "e", "t", "a", "i", "l">>,
     budget |-> <<"m", "e", "d", "i", "u", "m">>]

\* A replace that replaces every occurrence of the character.
RECURSIVE Replace_All(_, _, _)
Replace_All(s, pat, rep) ==
    IF s = <<>> THEN <<>>
    ELSE <<IF Head(s) = pat THEN rep ELSE Head(s)>>
             \o Replace_All(Tail(s), pat, rep)

\* String.prototype.replace(pat, rep) with a string pattern of one
\* character: the first occurrence is replaced, the rest is kept.
RECURSIVE Replace(_, _, _)
Replace(s, pat, rep) ==
    IF s = <<>> THEN <<>>
    ELSE IF Head(s) = pat THEN <<rep>> \o Tail(s)
    ELSE <<Head(s)>> \o Replace(Tail(s), pat, rep)

\* const prompt = `...${formData.location}...${formData.budget}...`
PromptText(fd) ==
    PromptHead \o fd.location
        \o PromptBeforeDemographics \o Replace(fd.demographics, "-", " ")
        \o PromptBeforeTraffic \o Replace(fd.traffic, "-", " ")
        \o PromptBeforeAmenities \o Replace(fd.amenities, "-", " ")
        \o PromptBeforeBudget \o fd.budget
        \o PromptTail

VARIABLES
    params,   \* formData with its five fields
    prompt    \* the prompt handleSubmit built last, with the formData it read

promptVars == <<params, prompt>>

controller == <<formData, loading, gisData, error, hoveredSite, calls>>
renderer == <<windowL, links, scripts, callbacks, mapInstance, mapLayers, markersRef>>
vars == <<mounted, controller, renderer, lastAction, promptVars>>

CallIds == 1..MaxCalls

\* A handleSubmit invocation that has not started.
IdleCall == [pc |-> "idle", i |-> 0, attempts |-> 0, waited |-> <<>>,
             timer |-> 0, failed |-> 0, lastError |-> NULL, response |-> NULL,
             outcome |-> NULL]

Active(c) == calls[c].pc \in {"fetch", "delay"}

Act(name, arg) == [name |-> name, arg |-> arg]

\* ---------------------------------------------------------------- RealMap
\* [39.8283, -98.5795]: the view a new map is set to (whole degrees).
USCenter == [lat |-> 39, lng |-> -98]

\* A marker whose mouseover handler passes on the site's id, not the site.
NewMarker_HoverId(site) ==
    [latlng |-> <<site.lat, site.lng>>, mouseover |-> [id |-> site.id],
     mouseout |-> NULL]

\* L.marker([site.lat, site.lng], ...).on('mouseover', () => setHoveredSite(site))
\*                                    .on('mouseout', () => setHoveredSite(null))
\* A marker is its position and what its two handlers pass to setHoveredSite.
NewMarker(site) ==
    [latlng |-> <<site.lat, site.lng>>, mouseover |-> site, mouseout |-> NULL]

\* mapInstance.current.removeLayer(marker): removes that one layer, if on the map.
RECURSIVE RemoveLayer(_, _)
RemoveLayer(layers, marker) ==
    IF layers = <<>> THEN <<>>
    ELSE IF Head(layers) = marker THEN Tail(layers)
    ELSE <<Head(layers)>> \o RemoveLayer(Tail(layers), marker)

RECURSIVE RemoveEach(_, _)
RemoveEach(layers, ref) ==
    IF ref = <<>> THEN layers
    ELSE RemoveEach(RemoveLayer(layers, Head(ref)), Tail(ref))

\* The clearing loop without the removeLayer call.
ClearMarkers_NoRemove(layers, ref) == layers

\* markersRef.current.forEach(marker => mapInstance.current.removeLayer(marker))
ClearMarkers(layers, ref) == RemoveEach(layers, ref)

\* sites.forEach(site => { ...; markersRef.current.push(marker); })
SiteMarkers(sites) == [n \in 1..Len(sites) |-> NewMarker(sites[n])]

\* A .then callback is ready once the promise of its loadLeaflet() resolved:
\* at once when window.L was defined, else when its script has loaded.
Ready(cb) == cb.awaits = 0 \/ scripts[cb.awaits] = "loaded"

\* Promise callbacks are microtasks: no other task starts while one is ready.
NoMicrotask == \A k \in 1..Len(callbacks) : ~Ready(callbacks[k])

\* The effect of RealMap for a render whose gisData is gd: loadLeaflet() up
\* to its await, and the registration of the .then callback.
EffectRun(gd) ==
    /\ IF ~windowL
       THEN /\ Len(scripts) < MaxScripts
            /\ links' = links + 1
            /\ scripts' = Append(scripts, "loading")
            /\ callbacks' = Append(callbacks,
                                   [gisData |-> gd, awaits |-> Len(scripts) + 1])
       ELSE /\ UNCHANGED <<links, scripts>>
            /\ callbacks' = Append(callbacks, [gisData |-> gd, awaits |-> 0])
    /\ UNCHANGED <<windowL, mapInstance, mapLayers, markersRef>>

\* A render after setGisData(gd).  The effect's dependencies are
\* [gisData, setHoveredSite]: it runs again when gisData is another object.
\* Every parsed response is a new object; null is the same null.
Render(gd) ==
    IF gd # NULL \/ gisData # NULL
    THEN EffectRun(gd)
    ELSE UNCHANGED renderer

\* First render of App and RealMap (gisData is null) and RealMap's effect.
Mount ==
    /\ ~mounted
    /\ mounted' = TRUE
    /\ EffectRun(NULL)
    /\ UNCHANGED controller
    /\ lastAction' = Act("mount", 0)
    /\ UNCHANGED promptVars

\* script.onload: the library has run (window.L is defined) and the promise
\* loadLeaflet() awaits is resolved.
ScriptLoaded(s) ==
    /\ mounted
    /\ UNCHANGED mounted
    /\ NoMicrotask
    /\ s \in 1..Len(scripts)
    /\ scripts[s] = "loading"
    /\ scripts' = [scripts EXCEPT ![s] = "loaded"]
    /\ windowL' = TRUE
    /\ UNCHANGED <<links, callbacks, mapInstance, mapLayers, markersRef>>
    /\ UNCHANGED controller
    /\ lastAction' = Act("onload", s)
    /\ UNCHANGED promptVars

\* The oldest ready callback.
NextReady ==
    CHOOSE k \in 1..Len(callbacks) :
        /\ Ready(callbacks[k])
        /\ \A j \in 1..(k - 1) : ~Ready(callbacks[j])

DropAt(seq, k) == SubSeq(seq, 1, k - 1) \o SubSeq(seq, k + 1, Len(seq))

\* loadLeaflet().then((L) => { ... }) with the gisData of its render.
\* mapContainerRef.current is set: RealMap stays mounted for the page session.
MapCallback ==
    /\ mounted
    /\ UNCHANGED mounted
    /\ ~NoMicrotask
    /\ LET k == NextReady
           gd == callbacks[k].gisData
       IN  /\ callbacks' = DropAt(callbacks, k)
           /\ IF gd # NULL
              THEN /\ mapInstance' = [center |-> gd.cityCenter]
                   /\ mapLayers' = ClearMarkers(mapLayers, markersRef)
                                       \o SiteMarkers(gd.sites)
                   /\ markersRef' = SiteMarkers(gd.sites)
              ELSE /\ mapInstance' = IF mapInstance = NULL
                                     THEN [center |-> USCenter]
                                     ELSE mapInstance
                   /\ UNCHANGED <<mapLayers, markersRef>>
           /\ lastAction' = Act("mapCallback", Len(mapLayers))
           /\ UNCHANGED promptVars
    /\ UNCHANGED <<windowL, links, scripts>>
    /\ UNCHANGED controller

\* The loading overlay and the placeholder (absolute inset-0 z-50) cover the
\* map container (absolute inset-0 z-0): the pointer reaches a marker only
\* when neither is rendered.
PointerReachesMap == ~loading /\ gisData # NULL

\* 'mouseover' on the k-th marker on the map.
MarkerMouseover(k) ==
    /\ mounted
    /\ UNCHANGED mounted
    /\ NoMicrotask
    /\ k \in 1..Len(mapLayers)
    /\ PointerReachesMap
    /\ hoveredSite' = mapLayers[k].mouseover
    /\ UNCHANGED <<formData, loading, gisData, error, calls>>
    /\ UNCHANGED renderer
    /\ lastAction' = Act("mouseover", k)
    /\ UNCHANGED promptVars

\* 'mouseout' on the k-th marker on the map.
MarkerMouseout(k) ==
    /\ mounted
    /\ UNCHANGED mounted
    /\ NoMicrotask
    /\ k \in 1..Len(mapLayers)
    /\ hoveredSite' = mapLayers[k].mouseout
    /\ UNCHANGED <<formData, loading, gisData, error, calls>>
    /\ UNCHANGED renderer
    /\ lastAction' = Act("mouseout", k)
    /\ UNCHANGED promptVars

\* ------------------------------------------------------------------- App
\* A submit button that is never disabled.
SubmitDisabled_Never == FALSE

\* <button type="submit" disabled={loading}>: a disabled submit button
\* submits nothing, by click or by Enter in the text field.
SubmitDisabled == loading

\* handleInputChange for the location field (onChange: the value changed).
HandleInputChange(v) ==
    /\ mounted
    /\ UNCHANGED mounted
    /\ NoMicrotask
    /\ v \in Locations
    /\ v # formData.location
    /\ formData' = [formData EXCEPT !.location = v]
    /\ UNCHANGED <<loading, gisData, error, hoveredSite, calls>>
    /\ UNCHANGED renderer
    /\ lastAction' = Act("handleInputChange", 0)
    /\ UNCHANGED promptVars

\* A submission attempt while the submit button is disabled: no event.
SubmitWhileDisabled ==
    /\ mounted
    /\ NoMicrotask
    /\ SubmitDisabled
    /\ UNCHANGED vars

\* handleSubmit, the location missing: setError(...); return
HandleSubmitInvalid ==
    /\ mounted
    /\ UNCHANGED mounted
    /\ NoMicrotask
    /\ ~SubmitDisabled
    /\ LocationMissing(formData)
    /\ error' = ValidationMessage
    /\ UNCHANGED <<formData, loading, gisData, hoveredSite, calls>>
    /\ UNCHANGED renderer
    /\ lastAction' = Act("handleSubmit", 0)
    /\ UNCHANGED promptVars

\* The reset without setGisData(null).
SubmitReset_KeepsResult ==
    [loading |-> TRUE, error |-> NULL, gisData |-> gisData, hoveredSite |-> NULL]

\* The reset without setHoveredSite(null).
SubmitReset_KeepsHover ==
    [loading |-> TRUE, error |-> NULL, gisData |-> NULL, hoveredSite |-> hoveredSite]

\* setLoading(true); setError(null); setGisData(null); setHoveredSite(null);
SubmitReset ==
    [loading |-> TRUE, error |-> NULL, gisData |-> NULL, hoveredSite |-> NULL]

\* The slot of the next handleSubmit invocation.
FreeCall ==
    CHOOSE c \in CallIds : ~Active(c) /\ \A d \in 1..(c - 1) : Active(d)

\* handleSubmit with a location: the reset, the prompt, and
\* callGeminiWithRetry up to the fetch of its first attempt (i = 0).
HandleSubmitValid ==
    /\ mounted
    /\ UNCHANGED mounted
    /\ NoMicrotask
    /\ ~SubmitDisabled
    /\ ~LocationMissing(formData)
    /\ \E c \in CallIds : ~Active(c)
    /\ loading' = SubmitReset.loading
    /\ error' = SubmitReset.error
    /\ gisData' = SubmitReset.gisData
    /\ hoveredSite' = SubmitReset.hoveredSite
    /\ calls' = [calls EXCEPT ![FreeCall] =
                    [IdleCall EXCEPT !.pc = "fetch", !.attempts = 1]]
    /\ Render(SubmitReset.gisData)
    /\ UNCHANGED formData
    /\ lastAction' = Act("handleSubmit", FreeCall)
    /\ UNCHANGED promptVars

\* A backoff that always waits the first delay.
RetryDelay_First(i) == delays[1]

\* delays[i], for the loop index i (JavaScript arrays start at 0).
RetryDelay(i) == delays[i + 1]

\* A handler end that leaves loading set.
SubmitFinally_Nothing == loading

\* finally { setLoading(false); }
SubmitFinally == FALSE

\* The fetch of call c settles with resp and the attempt returns the parsed
\* value: callGeminiWithRetry returns it, handleSubmit stores it.
AttemptSucceeds(c, resp) ==
    /\ mounted
    /\ UNCHANGED mounted
    /\ NoMicrotask
    /\ calls[c].pc = "fetch"
    /\ ~Attempt(resp).threw
    /\ calls' = [calls EXCEPT ![c].pc = "done",
                              ![c].response = resp,
                              ![c].outcome = [returned |-> TRUE,
                                              value |-> Attempt(resp).value]]
    /\ gisData' = Attempt(resp).value
    /\ loading' = SubmitFinally
    /\ Render(Attempt(resp).value)
    /\ UNCHANGED <<formData, error, hoveredSite>>
    /\ lastAction' = Act("fetchSettled", c)
    /\ UNCHANGED promptVars

\* The fetch of call c settles with resp and the attempt throws, i < 2:
\* the catch block keeps the error and starts the timer of delays[i].
AttemptFailsRetry(c, resp) ==
    /\ mounted
    /\ UNCHANGED mounted
    /\ NoMicrotask
    /\ calls[c].pc = "fetch"
    /\ Attempt(resp).threw
    /\ calls[c].i < LastAttemptIndex
    /\ calls' = [calls EXCEPT ![c].pc = "delay",
                              ![c].failed = @ + 1,
                              ![c].lastError = Attempt(resp).error,
                              ![c].timer = RetryDelay(calls[c].i)]
    /\ UNCHANGED <<formData, loading, gisData, error, hoveredSite>>
    /\ UNCHANGED renderer
    /\ lastAction' = Act("fetchSettled", c)
    /\ UNCHANGED promptVars

\* The timer of call c fires: i++, and the fetch of the next attempt.
TimerFires(c) ==
    /\ mounted
    /\ UNCHANGED mounted
    /\ NoMicrotask
    /\ calls[c].pc = "delay"
    /\ calls' = [calls EXCEPT ![c].pc = "fetch",
                              ![c].i = @ + 1,
                              ![c].attempts = @ + 1,
                              ![c].waited = Append(@, calls[c].timer),
                              ![c].timer = 0]
    /\ UNCHANGED <<formData, loading, gisData, error, hoveredSite>>
    /\ UNCHANGED renderer
    /\ lastAction' = Act("timer", c)
    /\ UNCHANGED promptVars

\* The fetch of call c settles with resp and the attempt throws, i = 2: no
\* timer, the loop ends, callGeminiWithRetry throws the generic error and
\* handleSubmit stores its message.
AttemptFailsLast(c, resp) ==
    /\ mounted
    /\ UNCHANGED mounted
    /\ NoMicrotask
    /\ calls[c].pc = "fetch"
    /\ Attempt(resp).threw
    /\ ~(calls[c].i < LastAttemptIndex)
    /\ calls' = [calls EXCEPT ![c].pc = "done",
                              ![c].failed = @ + 1,
                              ![c].lastError = Attempt(resp).error,
                              ![c].outcome = [returned |-> FALSE,
                                              error |-> [message |-> GenericMessage]]]
    /\ error' = GenericMessage
    /\ loading' = SubmitFinally
    /\ UNCHANGED <<formData, gisData, hoveredSite>>
    /\ UNCHANGED renderer
    /\ lastAction' = Act("fetchSettled", c)
    /\ UNCHANGED promptVars

\* ----------------------------------------------------------- specification
Init ==
    /\ mounted = FALSE
    /\ formData = [location |-> <<>>]
    /\ loading = FALSE
    /\ gisData = NULL
    /\ error = NULL
    /\ hoveredSite = NULL
    /\ calls = [c \in CallIds |-> IdleCall]
    /\ windowL = FALSE
    /\ links = 0
    /\ scripts = <<>>
    /\ callbacks = <<>>
    /\ mapInstance = NULL
    /\ mapLayers = <<>>
    /\ markersRef = <<>>
    /\ lastAction = Act("none", 0)
    /\ params = DefaultParams
    /\ prompt = NULL

Next ==
    \/ Mount
    \/ \E s \in 1..MaxScripts : ScriptLoaded(s)
    \/ MapCallback
    \/ \E k \in 1..(2 * MaxSites) : MarkerMouseover(k)
    \/ \E k \in 1..(2 * MaxSites) : MarkerMouseout(k)
    \/ \E v \in Locations : HandleInputChange(v)
    \/ SubmitWhileDisabled
    \/ HandleSubmitInvalid
    \/ HandleSubmitValid
    \/ \E c \in CallIds, resp \in Responses : AttemptSucceeds(c, resp)
    \/ \E c \in CallIds, resp \in Responses : AttemptFailsRetry(c, resp)
    \/ \E c \in CallIds : TimerFires(c)
    \/ \E c \in CallIds, resp \in Responses : AttemptFailsLast(c, resp)

Spec == Init /\ [][Next]_vars

\* ------------------------------------------------------------------ claims
\* Every task sets lastAction to its own name, so a step that changes the
\* state and ends with lastAction.name = n is a step of the task n.

OnlyWhiteSpace(s) == \A n \in 1..Len(s) : s[n] \in WhiteSpace

\* C1: a submission whose location is empty or only whitespace issues no
\* fetch (no call starts or moves) and leaves error equal to the fixed
\* validation message, from whatever state it is made.
C1_InvalidSubmitRejected ==
    [][(lastAction'.name = "handleSubmit" /\ OnlyWhiteSpace(formData.location))
          => /\ error' = Str("Please enter a target location (City, State, or Region).")
             /\ calls' = calls
             /\ loading' = loading]_vars

\* C1 witness: a whitespace-only submission made after an earlier query
\* succeeded has been rejected.
C1_Witness ==
    /\ lastAction = Act("handleSubmit", 0)
    /\ formData.location = <<" ">>
    /\ error = ValidationMessage
    /\ gisData # NULL

\* The backoff the specification states.
SpecDelays == <<500, 1000>>

\* A response whose attempt can succeed: 2xx, a JSON body, a candidate text
\* that is JSON.
GoodResponse(resp) ==
    /\ resp # NULL
    /\ resp.net
    /\ resp.ok
    /\ resp.body.valid
    /\ resp.body.candidates # <<>>
    /\ resp.body.candidates[1].json

\* C2: a call makes at most 3 attempts and stops at the first success;
\* every failure (non-2xx, network failure, malformed or missing JSON text)
\* leads to the next attempt; 500 ms is waited before the 2nd attempt and
\* 1000 ms before the 3rd, nothing after the 3rd; after the 3rd failure
\* the call fails with the one generic error.
C2_RetryPolicy ==
    \A c \in CallIds :
        LET k == calls[c]
        IN  /\ k.attempts <= 3
            /\ k.pc = "fetch" =>
                  /\ k.attempts = k.failed + 1
                  /\ k.waited = SubSeq(SpecDelays, 1, k.failed)
            /\ k.pc = "delay" =>
                  /\ k.failed \in 1..2
                  /\ k.attempts = k.failed
                  /\ k.timer = SpecDelays[k.failed]
                  /\ k.waited = SubSeq(SpecDelays, 1, k.failed - 1)
            /\ (k.pc = "done" /\ k.outcome.returned) =>
                  /\ GoodResponse(k.response)
                  /\ k.attempts = k.failed + 1
                  /\ k.waited = SubSeq(SpecDelays, 1, k.failed)
            /\ (k.pc = "done" /\ ~k.outcome.returned) =>
                  /\ k.attempts = 3
                  /\ k.failed = 3
                  /\ k.waited = SpecDelays
                  /\ k.outcome.error.message
                        = Str("Failed to connect to AI. Please try again.")

\* C2 witness: a call has failed three times, the last time with a
\* non-2xx status, and ended with the generic error.
C2_Witness ==
    \E c \in CallIds :
        /\ calls[c].pc = "done"
        /\ ~calls[c].outcome.returned
        /\ calls[c].attempts = 3
        /\ calls[c].waited = <<500, 1000>>
        /\ calls[c].lastError.message # GenericMessage
        /\ calls[c].lastError.message.str = "API request failed with status"
        /\ error = GenericMessage

\* C3: when the attempts of a valid submission fail k times (k in 0..2) and
\* attempt k+1 succeeds, the controller ends with error null, loading
\* false and the parsed response of that attempt as the result, after k+1
\* attempts and k delays.
C3_SuccessAfterRetries ==
    \A c \in CallIds :
        (/\ lastAction = Act("fetchSettled", c)
         /\ calls[c].pc = "done"
         /\ calls[c].outcome.returned)
            => /\ error = NULL
               /\ loading = FALSE
               /\ gisData = calls[c].response.body.candidates[1].value
               /\ calls[c].failed \in 0..2
               /\ calls[c].attempts = calls[c].failed + 1
               /\ Len(calls[c].waited) = calls[c].failed

\* C3 witness: two failed attempts, then a response with one site stored.
C3_Witness ==
    \E c \in CallIds :
        /\ lastAction = Act("fetchSettled", c)
        /\ calls[c].pc = "done"
        /\ calls[c].outcome.returned
        /\ calls[c].failed = 2
        /\ calls[c].attempts = 3
        /\ gisData = Result(1)

\* C4: when all three attempts of a valid submission fail, the controller
\* ends with the generic connection error, a null result (also when an
\* earlier query had succeeded) and loading false.
C4_FailureAfterRetries ==
    \A c \in CallIds :
        (/\ lastAction = Act("fetchSettled", c)
         /\ calls[c].pc = "done"
         /\ ~calls[c].outcome.returned)
            => /\ error = Str("Failed to connect to AI. Please try again.")
               /\ gisData = NULL
               /\ loading = FALSE

\* C4 witness: the query failed after an earlier one had put markers on
\* the map.
C4_Witness ==
    \E c \in CallIds :
        /\ lastAction = Act("fetchSettled", c)
        /\ calls[c].pc = "done"
        /\ ~calls[c].outcome.returned
        /\ calls[c].failed = 3
        /\ mapLayers # <<>>

InFlight == {c \in CallIds : Active(c)}

\* C5: while loading, no handleSubmit runs, so a submission attempt changes
\* nothing; at most one AI query is in flight, and loading is set exactly
\* while one is.
C5_SubmitInertWhileLoading ==
    [][/\ loading => lastAction'.name # "handleSubmit"
       /\ Cardinality(InFlight') <= 1
       /\ loading' <=> InFlight' # {}]_vars

\* C5 witness: a query is waiting for its retry timer while the form holds
\* a valid location.
C5_Witness ==
    /\ loading
    /\ ~OnlyWhiteSpace(formData.location)
    /\ \E c \in CallIds : calls[c].pc = "delay" /\ InFlight = {c}

\* The positions of the markers of a sequence of sites.
Positions(sites) == [n \in 1..Len(sites) |-> <<sites[n].lat, sites[n].lng>>]
LayerPositions(layers) == [n \in 1..Len(layers) |-> layers[n].latlng]

\* C6: when the map update for a result with K sites has run, exactly K
\* markers are on the map, one per site of that result and none left over
\* from an earlier result.
C6_MarkersReplaced ==
    [][\A k \in 1..Len(callbacks) :
          (/\ lastAction'.name = "mapCallback"
           /\ Ready(callbacks[k])
           /\ \A j \in 1..(k - 1) : ~Ready(callbacks[j])
           /\ callbacks[k].gisData # NULL)
             => /\ Len(mapLayers') = Len(callbacks[k].gisData.sites)
                /\ LayerPositions(mapLayers')
                      = Positions(callbacks[k].gisData.sites)]_vars

\* C6 witness: the update for a result with one site has run on a map that
\* held the two markers of the result before it.
C6_Witness ==
    /\ lastAction = Act("mapCallback", 2)
    /\ gisData = Result(1)
    /\ Len(mapLayers) = 1

\* C7: in every state the markers on the map are those of the sites of the
\* current result, and there are none when there is no result.
C7_MarkersReflectResult ==
    LayerPositions(mapLayers)
        = IF gisData = NULL THEN <<>> ELSE Positions(gisData.sites)

AllSites == {Site(k, n) : k \in 1..MaxSites, n \in 1..MaxSites}

\* The site a marker stands at.
SiteAt(marker) == CHOOSE s \in AllSites : <<s.lat, s.lng>> = marker.latlng

\* C8: mouseover on a marker sets hoveredSite to the site the marker was
\* created for, mouseout on a marker sets it to null, and no other map
\* event (script load, map callback) changes it.
C8_HoverFollowsMarker ==
    [][/\ lastAction'.name = "mouseover"
            => hoveredSite' = SiteAt(mapLayers[lastAction'.arg])
       /\ lastAction'.name = "mouseout" => hoveredSite' = NULL
       /\ hoveredSite' # hoveredSite
            => lastAction'.name \in {"mouseover", "mouseout", "handleSubmit"}]_vars

\* C8 witness: the second marker of a result has been hovered.
C8_Witness ==
    /\ lastAction = Act("mouseover", 2)
    /\ hoveredSite = Site(2, 2)

LoadingOverlay == loading
HoverCard == hoveredSite # NULL /\ ~loading
Placeholder == gisData = NULL /\ ~loading

\* C9: at most one of the loading overlay, the placeholder and the
\* hover-detail card is rendered.
C9_OverlaysExclusive ==
    /\ ~(LoadingOverlay /\ HoverCard)
    /\ ~(LoadingOverlay /\ Placeholder)
    /\ ~(HoverCard /\ Placeholder)

\* C9 witness: the placeholder is rendered over a map that still holds
\* markers, after a query failed.
C9_Witness ==
    /\ Placeholder
    /\ mapLayers # <<>>
    /\ error = GenericMessage

\* C10: the library's stylesheet and script are appended at most once.
C10_LibraryLoadedOnce == links <= 1 /\ Len(scripts) <= 1

\* ------------------------------------------------- the prompt's specification
\* App's state outside the form, which building the prompt does not touch.
appVars == <<mounted, controller, renderer, lastAction>>

\* handleInputChange for the location field.
LocationChange(v) ==
    /\ v \in PromptLocations
    /\ v # params.location
    /\ params' = [params EXCEPT !.location = v]
    /\ UNCHANGED <<prompt, appVars>>

\* handleInputChange for <select name="demographics">.
DemographicsChange(v) ==
    /\ v \in DemographicsOptions
    /\ v # params.demographics
    /\ params' = [params EXCEPT !.demographics = v]
    /\ UNCHANGED <<prompt, appVars>>

\* handleInputChange for <select name="traffic">.
TrafficChange(v) ==
    /\ v \in TrafficOptions
    /\ v # params.traffic
    /\ params' = [params EXCEPT !.traffic = v]
    /\ UNCHANGED <<prompt, appVars>>

\* handleInputChange for <select name="amenities">.
AmenitiesChange(v) ==
    /\ v \in AmenitiesOptions
    /\ v # params.amenities
    /\ params' = [params EXCEPT !.amenities = v]
    /\ UNCHANGED <<prompt, appVars>>

\* handleSubmit with a location, up to the prompt it passes on.
BuildPrompt ==
    /\ ~LocationMissing(params)
    /\ prompt' = [formData |-> params, text |-> PromptText(params)]
    /\ UNCHANGED <<params, appVars>>

InitPrompt ==
    /\ mounted = FALSE
    /\ formData = [location |-> <<>>]
    /\ loading = FALSE
    /\ gisData = NULL
    /\ error = NULL
    /\ hoveredSite = NULL
    /\ calls = [c \in CallIds |-> IdleCall]
    /\ windowL = FALSE
    /\ links = 0
    /\ scripts = <<>>
    /\ callbacks = <<>>
    /\ mapInstance = NULL
    /\ mapLayers = <<>>
    /\ markersRef = <<>>
    /\ lastAction = Act("none", 0)
    /\ params = DefaultParams
    /\ prompt = NULL

NextPrompt ==
    \/ \E v \in PromptLocations : LocationChange(v)
    \/ \E v \in DemographicsOptions : DemographicsChange(v)
    \/ \E v \in TrafficOptions : TrafficChange(v)
    \/ \E v \in AmenitiesOptions : AmenitiesChange(v)
    \/ BuildPrompt

SpecPrompt == InitPrompt /\ [][NextPrompt]_vars

\* text contains sub as a run of consecutive characters.
Contains(text, sub) ==
    \E n \in 0..(Len(text) - Len(sub)) :
        SubSeq(text, n + 1, n + Len(sub)) = sub

\* C11: for every combination of the form's values, the prompt contains
\* the demographics, traffic and amenities values with every hyphen
\* replaced by a space, and the location and the budget as they are.
C11_PromptContainsReadableValues ==
    prompt # NULL =>
        /\ Contains(prompt.text, prompt.formData.location)
        /\ Contains(prompt.text, Replace_All(prompt.formData.demographics, "-", " "))
        /\ Contains(prompt.text, Replace_All(prompt.formData.traffic, "-", " "))
        /\ Contains(prompt.text, Replace_All(prompt.formData.amenities, "-", " "))
        /\ Contains(prompt.text, prompt.formData.budget)

=============================================================================
